---- MODULE Spec2Model ----
(***************************************************************************)
(* Model of protx/models/student/model.py: the checkpoint architecture     *)
(* inspection (ProtX.inspect_checkpoint_architecture) and the embedding    *)
(* generator (ProtX.load_and_generate_embeddings).                         *)
(*                                                                         *)
(* A parameter name is a sequence of its dot-separated segments, a tensor  *)
(* is represented by its shape (a sequence of dimension sizes), and a      *)
(* state dict is a sequence of [key, shape] entries in iteration order.    *)
(***************************************************************************)
EXTENDS Integers, Sequences, FiniteSets, TLC

VARIABLES
    readable,            \* whether load_file(checkpoint_path) succeeds
    state_dict,          \* the checkpoint's parameter table, in iteration order
    sequences,           \* the caller's input sequences (an iterator's content)
    batch_size,
    max_length,
    per_seq_embeddings,  \* TRUE: pooled, FALSE: per-token
    pc,                  \* position of the generator / of the inspection call
    arch,                \* outcome of inspect_checkpoint_architecture
    seq_list,            \* the local list made from `sequences` (line 132)
    taken,               \* how many items were drawn from the input iterator
    i,                   \* start offset of the current batch (line 136)
    batch,               \* results computed for the current batch, in row order
    j,                   \* how many rows of the current batch were yielded
    yielded,             \* the pairs handed to the caller so far
    log                  \* the messages printed so far

vars == << readable, state_dict, sequences, batch_size, max_length,
           per_seq_embeddings, pc, arch, seq_list, taken, i, batch, j,
           yielded, log >>

----------------------------------------------------------------------------
(* Bounds of the explored inputs.                                          *)

MaxKeys == 3
MaxLayerKeys == 4
MaxSeqs == 3
MaxBatch == 3

----------------------------------------------------------------------------
(* Python helpers.                                                         *)

Min(a, b) == IF a <= b THEN a ELSE b

Max(a, b) == IF a >= b THEN a ELSE b

\* s[:n] of a sequence, with Python's treatment of a negative bound
PySliceTo(s, n) ==
    IF n >= 0 THEN SubSeq(s, 1, Min(n, Len(s)))
    ELSE SubSeq(s, 1, Max(Len(s) + n, 0))

\* s[a:b] for 0 <= a <= b
PySlice(s, a, b) == SubSeq(s, Min(a, Len(s)) + 1, Min(b, Len(s)))

\* str.lower() on the segments that occur in the explored names
LowerSeg(s) ==
    CASE s = "Query"  -> "query"
      [] s = "Weight" -> "weight"
      [] s = "Wo"     -> "wo"
      [] s = "Wi"     -> "wi"
      [] s = "Wqkv"   -> "wqkv"
      [] OTHER        -> s

Lower(key) == [k \in 1..Len(key) |-> LowerSeg(key[k])]

\* s.startswith(p) for segments: "01" is the one explored segment with a
\* proper prefix that is itself a pattern segment
SegStartsWith(s, p) == s = p \/ (s = "01" /\ p = "0")

\* `'a.b.c' in key`: a substring test on the dotted name.  The pattern's
\* inner segments must equal whole segments of the key; its first segment
\* must end a key segment and its last must start one.  No explored segment
\* has a pattern segment as a proper suffix.
Contains(key, pat) ==
    \E k \in 1..(Len(key) - Len(pat) + 1) :
        /\ \A m \in 1..(Len(pat) - 1) : key[k + m - 1] = pat[m]
        /\ SegStartsWith(key[k + Len(pat) - 1], pat[Len(pat)])

\* `'model.layers.' in key`: the pattern ends with a dot, so a further
\* segment follows 'layers'
ContainsModelLayersDot(key) ==
    \E k \in 1..(Len(key) - 2) : key[k] = "model" /\ key[k + 1] = "layers"

\* int(part): the segments Python's int() accepts, with their values
IntSegs == {"0", "1", "2", "3", "01", "-1"}

IntOf(s) ==
    CASE s = "0"  -> 0
      [] s = "1"  -> 1
      [] s = "2"  -> 2
      [] s = "3"  -> 3
      [] s = "01" -> 1
      [] s = "-1" -> 0 - 1

\* the first index of a loop over the table that reaches `break`: the least
\* element of the set S of matching indices, 0 when the loop runs out
FirstIndex(S) ==
    IF S = {} THEN 0 ELSE CHOOSE k \in S : \A m \in S : k <= m

----------------------------------------------------------------------------
(* inspect_checkpoint_architecture, lines 205-284.                         *)

TokEmbPat == <<"embeddings", "tok_embeddings", "weight">>
WoPat     == <<"model", "layers", "0", "attn", "Wo", "weight">>
WiPat     == <<"model", "layers", "0", "mlp", "Wi", "weight">>
WqkvPat   == <<"model", "layers", "0", "attn", "Wqkv", "weight">>

\* which branch of lines 212-220 an entry takes: 1, 2, 3, or 0 for none
EmbedRule(key) ==
    IF Contains(key, TokEmbPat) THEN 1
    ELSE IF Contains(key, WoPat) THEN 2
    ELSE IF Contains(key, WiPat) THEN 3
    ELSE 0

\* the dimension a branch unpacks into embed_dim
EmbedDimOf(rule, shape) ==
    IF rule = 1 THEN shape[2]
    ELSE IF rule = 2 THEN shape[1]
    ELSE shape[2]

\* EmbedStage with the rules tried one after the other over the whole table:
\* a tok_embeddings key anywhere is preferred to an earlier Wo or Wi key
EmbedStageByRulePriority(sd) ==
    LET T == {n \in 1..Len(sd) : EmbedRule(sd[n].key) = 1}
        k == IF T # {} THEN FirstIndex(T)
             ELSE FirstIndex({n \in 1..Len(sd) : EmbedRule(sd[n].key) # 0})
    IN  IF k = 0 THEN [status |-> "none", value |-> 0]
        ELSE IF Len(sd[k].shape) # 2 THEN [status |-> "unpack", value |-> 0]
        ELSE [status |-> "ok",
              value |-> EmbedDimOf(EmbedRule(sd[k].key), sd[k].shape)]

\* lines 211-223: [status, value]; "unpack" is the ValueError of a tuple
\* unpacking of a shape that has not exactly two dimensions
EmbedStage(sd) ==
    LET k == FirstIndex({n \in 1..Len(sd) : EmbedRule(sd[n].key) # 0})
    IN  IF k = 0 THEN [status |-> "none", value |-> 0]
        ELSE IF Len(sd[k].shape) # 2 THEN [status |-> "unpack", value |-> 0]
        ELSE [status |-> "ok",
              value |-> EmbedDimOf(EmbedRule(sd[k].key), sd[k].shape)]

\* lines 231-237 for one key: the integers that follow a 'layers' part
KeyLayerIndices(key) ==
    { IntOf(key[m + 1]) :
        m \in { n \in 1..(Len(key) - 1) :
                  key[n] = "layers" /\ key[n + 1] \in IntSegs } }

\* lines 226-237
LayerIndices(sd) ==
    UNION { IF ContainsModelLayersDot(sd[k].key)
            THEN KeyLayerIndices(sd[k].key) ELSE {} : k \in 1..Len(sd) }

\* NumLayers as the highest index plus one
NumLayersByMax(sd) ==
    IF LayerIndices(sd) = {} THEN 0
    ELSE 1 + CHOOSE n \in LayerIndices(sd) : \A m \in LayerIndices(sd) : m <= n

\* line 239
NumLayers(sd) == Cardinality(LayerIndices(sd))

PossibleHeads == <<8, 12, 16, 20, 24, 32>>

\* HeadsFromCandidates without the divisibility test
HeadsFromCandidatesUntested(embed_dim) == << PossibleHeads[1] >>

\* lines 259-263: <<>> when no candidate divides embed_dim
HeadsFromCandidates(embed_dim) ==
    LET S == {k \in 1..Len(PossibleHeads) : embed_dim % PossibleHeads[k] = 0}
    IN  IF S = {} THEN <<>>
        ELSE << PossibleHeads[CHOOSE k \in S : \A m \in S : k <= m] >>

\* HeadsFromEmbedDim with the head dimension 32 tried before 64
HeadsFromEmbedDimReordered(embed_dim) ==
    IF embed_dim % 32 = 0 THEN << embed_dim \div 32 >>
    ELSE IF embed_dim % 64 = 0 THEN << embed_dim \div 64 >>
    ELSE IF embed_dim % 128 = 0 THEN << embed_dim \div 128 >>
    ELSE HeadsFromCandidates(embed_dim)

\* lines 252-263: num_heads as <<h>>, or <<>> when it stays None
HeadsFromEmbedDim(embed_dim) ==
    IF embed_dim % 64 = 0 THEN << embed_dim \div 64 >>
    ELSE IF embed_dim % 32 = 0 THEN << embed_dim \div 32 >>
    ELSE IF embed_dim % 128 = 0 THEN << embed_dim \div 128 >>
    ELSE HeadsFromCandidates(embed_dim)

\* lines 245-264: [status, heads]
WqkvStage(sd, embed_dim) ==
    LET k == FirstIndex({n \in 1..Len(sd) : Contains(sd[n].key, WqkvPat)})
    IN  IF k = 0 THEN [status |-> "ok", heads |-> <<>>]
        ELSE IF Len(sd[k].shape) # 2 THEN [status |-> "unpack", heads |-> <<>>]
        ELSE IF sd[k].shape[1] = 3 * embed_dim
             THEN [status |-> "ok", heads |-> HeadsFromEmbedDim(embed_dim)]
             ELSE [status |-> "ok", heads |-> <<>>]

HeadDims == <<32, 64, 128>>

\* lines 275-278
HeadsFromOutDim(out_dim) ==
    LET S == {k \in 1..Len(HeadDims) : out_dim % HeadDims[k] = 0}
    IN  IF S = {} THEN <<>>
        ELSE << out_dim \div HeadDims[CHOOSE k \in S : \A m \in S : k <= m] >>

\* line 269: 'query' in key.lower() and 'weight' in key and 'layers.0' in key
IsQueryKey(key) ==
    /\ Contains(Lower(key), <<"query">>)
    /\ Contains(key, <<"weight">>)
    /\ Contains(key, <<"layers", "0">>)

\* QueryStage falling back to a default head count
QueryStageDefaulting(sd, embed_dim) ==
    LET k == FirstIndex({n \in 1..Len(sd) : IsQueryKey(sd[n].key)})
    IN  IF k # 0 /\ Len(sd[k].shape) = 2 /\ sd[k].shape[2] = embed_dim
        THEN HeadsFromOutDim(sd[k].shape[1])
        ELSE << 1 >>

\* lines 267-279
QueryStage(sd, embed_dim) ==
    LET k == FirstIndex({n \in 1..Len(sd) : IsQueryKey(sd[n].key)})
    IN  IF k = 0 THEN <<>>
        ELSE IF Len(sd[k].shape) = 2 /\ sd[k].shape[2] = embed_dim
             THEN HeadsFromOutDim(sd[k].shape[1])
             ELSE <<>>

\* an exception leaving the function: its type and message
Raise(kind, msg) ==
    [raised |-> kind, message |-> msg,
     embed_dim |-> 0, num_layers |-> 0, num_heads |-> 0]

\* line 284
Return(e, l, h) ==
    [raised |-> "", message |-> "",
     embed_dim |-> e, num_layers |-> l, num_heads |-> h]

NotCalled == Raise("", "not called")

UnpackMessage == "not enough values to unpack"

\* lines 199-284
inspect_checkpoint_architecture(ok, sd) ==
    IF ~ok THEN Raise("FileNotFoundError", "Error loading checkpoint")
    ELSE
    LET es == EmbedStage(sd) IN
    IF es.status = "unpack" THEN Raise("ValueError", UnpackMessage)
    ELSE IF es.status = "none"
    THEN Raise("ValueError", "Could not determine embed_dim from checkpoint")
    ELSE IF NumLayers(sd) = 0
    THEN Raise("ValueError", "Could not determine num_layers from checkpoint")
    ELSE
    LET ws == WqkvStage(sd, es.value) IN
    IF ws.status = "unpack" THEN Raise("ValueError", UnpackMessage)
    ELSE IF ws.heads # <<>>
    THEN Return(es.value, NumLayers(sd), ws.heads[1])
    ELSE
    LET qs == QueryStage(sd, es.value) IN
    IF qs # <<>>
    THEN Return(es.value, NumLayers(sd), qs[1])
    ELSE Raise("ValueError", "Could not determine num_heads from checkpoint")

----------------------------------------------------------------------------
(* Collaborators of the generator.                                         *)

\* ProtX(...) at lines 110-115 builds a ModernBertModel of the inferred
\* size; the encoder refuses a head count that does not divide the width
ConstructionFails(a) ==
    a.num_heads = 0 \/ a.embed_dim % a.num_heads # 0

\* residues of a sequence that survive truncation to max_length tokens,
\* one of which is the end-of-sequence marker
ResidueCount(seq, maxlen) == Min(Len(seq), maxlen - 1)

SeqLen(seqs, maxlen) ==
    LET R == {ResidueCount(seqs[r], maxlen) : r \in 1..Len(seqs)}
    IN  1 + CHOOSE n \in R : \A m \in R : m <= n

\* tokenizer.batch_encode_plus(padding=True, truncation=True): per row the
\* residues, the end-of-sequence marker, then padding to the longest row
TokenizeIds(seqs, maxlen) ==
    [r \in 1..Len(seqs) |->
        [t \in 1..SeqLen(seqs, maxlen) |->
            IF t <= ResidueCount(seqs[r], maxlen) THEN seqs[r][t]
            ELSE IF t = ResidueCount(seqs[r], maxlen) + 1 THEN "EOS"
            ELSE "PAD"]]

TokenizeMask(seqs, maxlen) ==
    [r \in 1..Len(seqs) |->
        [t \in 1..SeqLen(seqs, maxlen) |->
            IF t <= ResidueCount(seqs[r], maxlen) + 1 THEN 1 ELSE 0]]

----------------------------------------------------------------------------
(* load_and_generate_embeddings, lines 101-182.  The hidden state of       *)
(* position t of a row is represented by t itself.                         *)

RECURSIVE SumSeq(_)
SumSeq(s) == IF s = <<>> THEN 0 ELSE s[1] + SumSeq(Tail(s))

\* BatchSequences with the slice ending one item early
BatchSequencesShort(seqs, start, size) == PySlice(seqs, start, start + size - 1)

\* line 137
BatchSequences(seqs, start, size) == PySlice(seqs, start, start + size)

\* lines 165-172 for one row: the positions whose hidden states are summed
\* and the divisor (0 stands for the clamp floor 1e-9)
PoolRow(mask_row) ==
    LET mask_no_eos == PySliceTo(mask_row, 0 - 1)
    IN  [terms   |-> {t \in 1..Len(mask_no_eos) : mask_no_eos[t] = 1},
         divisor |-> SumSeq(mask_no_eos)]

\* ActualLength without the end-of-sequence marker subtracted
ActualLengthWithEos(mask_row) == SumSeq(mask_row)

\* line 181
ActualLength(mask_row) == SumSeq(mask_row) - 1

\* line 182: seq_embeddings[:actual_length], as the positions kept
PerTokenRow(mask_row) ==
    [rows |-> PySliceTo([t \in 1..Len(mask_row) |-> t], ActualLength(mask_row))]

NoBatch == [seqs |-> <<>>, ids |-> <<>>, mask |-> <<>>, pooled |-> <<>>]

\* lines 137-172: the batch that starts at offset `start`
MakeBatch(seqs, start, size, maxlen, pooled) ==
    LET bs   == BatchSequences(seqs, start, size)
        mask == TokenizeMask(bs, maxlen)
    IN  [seqs   |-> bs,
         ids    |-> TokenizeIds(bs, maxlen),
         mask   |-> mask,
         pooled |-> IF pooled THEN [r \in 1..Len(mask) |-> PoolRow(mask[r])]
                    ELSE <<>>]

\* lines 102-107
DetectArchitecture ==
    /\ pc = "start"
    /\ arch' = inspect_checkpoint_architecture(readable, state_dict)
    /\ IF arch'.raised # ""
       THEN /\ log' = Append(log, "Error detecting architecture")
            /\ pc' = "done"
       ELSE /\ log' = Append(log, "Detected architecture")
            /\ pc' = "construct"
    /\ UNCHANGED << readable, state_dict, sequences, batch_size, max_length,
                    per_seq_embeddings, seq_list, taken, i, batch, j, yielded >>

\* lines 110-115: no handler encloses the constructor call
ConstructModel ==
    /\ pc = "construct"
    /\ pc' = IF ConstructionFails(arch) THEN "raised" ELSE "load"
    /\ UNCHANGED << readable, state_dict, sequences, batch_size, max_length,
                    per_seq_embeddings, arch, seq_list, taken, i, batch, j,
                    yielded, log >>

\* lines 118-124: reading the file again or assigning the weights may fail
LoadCheckpoint ==
    /\ pc = "load"
    /\ \E ok \in BOOLEAN :
          IF ok
          THEN /\ log' = Append(log, "Successfully loaded checkpoint")
               /\ pc' = "materialize"
          ELSE /\ log' = Append(log, "Error loading checkpoint")
               /\ pc' = "done"
    /\ UNCHANGED << readable, state_dict, sequences, batch_size, max_length,
                    per_seq_embeddings, arch, seq_list, taken, i, batch, j,
                    yielded >>

\* lines 131-132
Materialize ==
    /\ pc = "materialize"
    /\ seq_list' = sequences
    /\ taken' = Len(sequences)
    /\ i' = 0
    /\ pc' = "loop"
    /\ UNCHANGED << readable, state_dict, sequences, batch_size, max_length,
                    per_seq_embeddings, arch, batch, j, yielded, log >>

\* lines 136-172: the next batch, or the end of the range
NextBatch ==
    /\ pc = "loop"
    /\ IF i < Len(seq_list)
       THEN /\ batch' = MakeBatch(seq_list, i, batch_size, max_length,
                                  per_seq_embeddings)
            /\ j' = 0
            /\ pc' = "yield"
       ELSE /\ pc' = "done"
            /\ UNCHANGED << batch, j >>
    /\ UNCHANGED << readable, state_dict, sequences, batch_size, max_length,
                    per_seq_embeddings, arch, seq_list, taken, i, yielded,
                    log >>

\* number of pairs the zip of lines 175 / 179 produces for the batch
ZipLen(b, pooled) ==
    IF pooled THEN Min(Len(b.seqs), Len(b.pooled))
    ELSE Min(Len(b.seqs), Len(b.mask))

\* lines 175-176 and 179-182: one pair to the caller
YieldPair ==
    /\ pc = "yield"
    /\ j < ZipLen(batch, per_seq_embeddings)
    /\ yielded' = Append(yielded,
                    [seq |-> batch.seqs[j + 1],
                     embedding |-> IF per_seq_embeddings
                                   THEN batch.pooled[j + 1]
                                   ELSE PerTokenRow(batch.mask[j + 1])])
    /\ j' = j + 1
    /\ UNCHANGED << readable, state_dict, sequences, batch_size, max_length,
                    per_seq_embeddings, pc, arch, seq_list, taken, i, batch,
                    log >>

\* line 136: the batch is exhausted, the range advances
EndBatch ==
    /\ pc = "yield"
    /\ j = ZipLen(batch, per_seq_embeddings)
    /\ i' = i + batch_size
    /\ pc' = "loop"
    /\ UNCHANGED << readable, state_dict, sequences, batch_size, max_length,
                    per_seq_embeddings, arch, seq_list, taken, batch, j,
                    yielded, log >>

\* a direct call of inspect_checkpoint_architecture
CallInspect ==
    /\ pc = "call"
    /\ arch' = inspect_checkpoint_architecture(readable, state_dict)
    /\ pc' = "returned"
    /\ UNCHANGED << readable, state_dict, sequences, batch_size, max_length,
                    per_seq_embeddings, seq_list, taken, i, batch, j, yielded,
                    log >>

----------------------------------------------------------------------------
(* The explored inputs.                                                    *)

KeyTok    == <<"model", "embeddings", "tok_embeddings", "weight">>
KeyWo     == <<"model", "layers", "0", "attn", "Wo", "weight">>
KeyWi     == <<"model", "layers", "0", "mlp", "Wi", "weight">>
KeyWqkv   == <<"model", "layers", "0", "attn", "Wqkv", "weight">>
KeyQuery  == <<"encoder", "layers", "0", "attn", "Query", "weight">>
KeyQuery1 == <<"model", "layers", "01", "attn", "query", "weight">>
KeyQueryW == <<"model", "layers", "0", "attn", "query", "Weight">>
KeyProj   == <<"proj", "weight">>

\* a parameter of layer <idx> that no inference rule matches
LayerKey(idx) == <<"model", "layers", idx, "mlp", "Wo", "weight">>

Entry(k, s) == [key |-> k, shape |-> s]

EmbedDims == {0, 7, 36, 96, 100, 768}

\* the entries the inspection is explored on
EntryPool ==
         { Entry(KeyTok, <<33, e>>) : e \in EmbedDims }
    \cup { Entry(KeyWo, <<96, 96>>), Entry(KeyWo, <<100, 96>>),
           Entry(KeyWo, <<96>>) }
    \cup { Entry(KeyWi, <<384, 96>>), Entry(KeyWi, <<200, 100>>) }
    \cup { Entry(KeyWqkv, <<3 * e, e>>) : e \in EmbedDims }
    \cup { Entry(KeyWqkv, <<96, 96>>), Entry(KeyWqkv, <<288>>) }
    \cup { Entry(KeyQuery, <<96, 96>>), Entry(KeyQuery, <<160, 96>>),
           Entry(KeyQuery, <<0, 96>>), Entry(KeyQuery, <<50, 96>>),
           Entry(KeyQuery, <<96, 100>>), Entry(KeyQuery, <<96>>) }
    \cup { Entry(KeyQuery1, <<64, 7>>), Entry(KeyQueryW, <<96, 96>>),
           Entry(LayerKey("1"), <<96, 192>>), Entry(KeyProj, <<1024, 96>>) }

\* a state dict has each key once
DistinctKeys(sd) ==
    \A a, b \in 1..Len(sd) : a # b => sd[a].key # sd[b].key

Tables == { sd \in UNION { [1..n -> EntryPool] : n \in 0..MaxKeys } :
              DistinctKeys(sd) }

\* layer-indexed parameters, an index that is no integer, an index written
\* with a leading zero or a sign, and a key outside 'model.layers.'
LayerPool ==
    { Entry(LayerKey(idx), <<64, 128>>) :
        idx \in {"0", "1", "2", "3", "01", "-1", "x"} }
    \cup { Entry(KeyWqkv, <<192, 64>>),
           Entry(<<"encoder", "layers", "2", "weight">>, <<64, 64>>) }

LayerTables ==
    { <<Entry(KeyTok, <<33, 64>>)>> \o sd :
        sd \in { t \in UNION { [1..n -> LayerPool] : n \in 0..MaxLayerKeys } :
                   DistinctKeys(t) } }

\* checkpoints the generator is explored on
CkptGood      == << Entry(KeyTok, <<33, 64>>), Entry(KeyWqkv, <<192, 64>>),
                    Entry(LayerKey("1"), <<64, 128>>) >>
CkptNoHeads   == << Entry(KeyTok, <<33, 64>>), Entry(KeyWo, <<64, 64>>) >>
CkptNoHeadsWi == << Entry(KeyWi, <<256, 64>>), Entry(LayerKey("1"), <<64, 128>>) >>
CkptQueryOff  == << Entry(KeyTok, <<33, 96>>), Entry(KeyWo, <<96, 96>>),
                    Entry(KeyQuery, <<96, 100>>) >>
CkptNoEmbed   == << Entry(KeyWqkv, <<192, 64>>) >>
CkptNoLayers  == << Entry(KeyTok, <<33, 64>>) >>
CkptOddHeads  == << Entry(KeyTok, <<33, 96>>), Entry(KeyQuery, <<160, 96>>),
                    Entry(LayerKey("1"), <<96, 192>>) >>
CkptBadShape  == << Entry(KeyTok, <<33>>) >>

Checkpoints ==
    { CkptGood, CkptNoHeads, CkptNoHeadsWi, CkptQueryOff, CkptNoEmbed,
      CkptNoLayers, CkptOddHeads, CkptBadShape }

SeqPool == { <<>>, <<"A">>, <<"C">>, <<"A", "C">>, <<"A", "C", "D">> }

SequenceLists == UNION { [1..n -> SeqPool] : n \in 0..MaxSeqs }

MaxLengths == {3, 512}

----------------------------------------------------------------------------
(* Specifications.                                                         *)

Idle ==
    /\ arch = NotCalled
    /\ seq_list = <<>>
    /\ taken = 0
    /\ i = 0
    /\ batch = NoBatch
    /\ j = 0
    /\ yielded = <<>>
    /\ log = <<>>

\* the generator, from its first resumption to its end
Init ==
    /\ \/ readable = TRUE /\ state_dict \in Checkpoints
       \/ readable = FALSE /\ state_dict = <<>>
    /\ sequences \in SequenceLists
    /\ batch_size \in 1..MaxBatch
    /\ max_length \in MaxLengths
    /\ per_seq_embeddings \in BOOLEAN
    /\ pc = "start"
    /\ Idle

Next ==
    \/ DetectArchitecture
    \/ ConstructModel
    \/ LoadCheckpoint
    \/ Materialize
    \/ NextBatch
    \/ YieldPair
    \/ EndBatch

Spec == Init /\ [][Next]_vars

InspectInputs ==
    /\ sequences = <<>>
    /\ batch_size = 1
    /\ max_length = 512
    /\ per_seq_embeddings = TRUE
    /\ pc = "call"
    /\ Idle

\* inspect_checkpoint_architecture on every table over EntryPool
InitInspect ==
    /\ \/ readable = TRUE /\ state_dict \in Tables
       \/ readable = FALSE /\ state_dict = <<>>
    /\ InspectInputs

SpecInspect == InitInspect /\ [][CallInspect]_vars

\* inspect_checkpoint_architecture on tables of layer-indexed keys
InitLayers ==
    /\ readable = TRUE
    /\ state_dict \in LayerTables
    /\ InspectInputs

SpecLayers == InitLayers /\ [][CallInspect]_vars

----------------------------------------------------------------------------
(* Properties of inspect_checkpoint_architecture.                          *)

Returned == pc = "returned" /\ arch.raised = ""

\* the entries whose key matches one of the three embed_dim name rules
RuleMatches ==
    { k \in 1..Len(state_dict) :
        \/ Contains(state_dict[k].key, TokEmbPat)
        \/ Contains(state_dict[k].key, WoPat)
        \/ Contains(state_dict[k].key, WiPat) }

TokEntries ==
    { k \in 1..Len(state_dict) :
        /\ Contains(state_dict[k].key, TokEmbPat)
        /\ Len(state_dict[k].shape) = 2 }

\* C1 as stated: whenever the table holds an 'embeddings.tok_embeddings.weight'
\* key of shape [V, E], the returned embed_dim is E, wherever the keys of the
\* other two rules sit and whatever their dimensions are.
C1_TokEmbeddingsAlwaysWins ==
    Returned => \A k \in TokEntries : arch.embed_dim = state_dict[k].shape[2]

\* C1 amended: the returned embed_dim is read from the first key, in iteration
\* order, that matches any of the three rules: E for tok_embeddings [V, E],
\* the first dimension for attn.Wo, the second for mlp.Wi.  So it is the E of
\* the tok_embeddings key exactly when no Wo or Wi key precedes that key.
C1_FirstMatchingKeyWins ==
    (Returned /\ RuleMatches # {}) =>
        LET k == CHOOSE n \in RuleMatches : \A m \in RuleMatches : n <= m
            e == state_dict[k]
        IN  /\ Len(e.shape) = 2
            /\ Contains(e.key, TokEmbPat) => arch.embed_dim = e.shape[2]
            /\ (~Contains(e.key, TokEmbPat) /\ Contains(e.key, WoPat))
                  => arch.embed_dim = e.shape[1]
            /\ (~Contains(e.key, TokEmbPat) /\ ~Contains(e.key, WoPat))
                  => arch.embed_dim = e.shape[2]

\* a tok_embeddings key comes first and a Wo key of another width follows it
C1_Witness ==
    /\ Returned
    /\ \E a, b \in 1..Len(state_dict) :
          /\ a < b
          /\ \A m \in RuleMatches : a <= m
          /\ state_dict[a].key = KeyTok
          /\ state_dict[b].key = KeyWo
          /\ Len(state_dict[b].shape) = 2
          /\ state_dict[b].shape[1] # state_dict[a].shape[2]
          /\ arch.embed_dim = state_dict[a].shape[2]

\* the integers written after 'model.layers.' in the keys of the table
WrittenLayerIndices ==
    { n \in (0 - 1)..3 :
        \E k \in 1..Len(state_dict) :
            \E m \in 1..(Len(state_dict[k].key) - 2) :
                /\ state_dict[k].key[m] = "model"
                /\ state_dict[k].key[m + 1] = "layers"
                /\ \/ n = 0 /\ state_dict[k].key[m + 2] = "0"
                   \/ n = 1 /\ state_dict[k].key[m + 2] \in {"1", "01"}
                   \/ n = 2 /\ state_dict[k].key[m + 2] = "2"
                   \/ n = 3 /\ state_dict[k].key[m + 2] = "3"
                   \/ n = 0 - 1 /\ state_dict[k].key[m + 2] = "-1" }

\* C5: num_layers is the number of distinct integers written after
\* 'model.layers.' over all keys, not the highest index plus one: {0,1,2,3}
\* gives 4 and {0,2} gives 2; a segment that is no integer is skipped; with
\* no index at all the inspection fails with the num_layers error.
C5_NumLayersIsCardinality ==
    pc = "returned" =>
        /\ arch.raised = "" =>
              /\ arch.num_layers = Cardinality(WrittenLayerIndices)
              /\ WrittenLayerIndices = {0, 1, 2, 3} => arch.num_layers = 4
              /\ WrittenLayerIndices = {0, 2} => arch.num_layers = 2
        /\ WrittenLayerIndices = {} =>
              /\ arch.raised = "ValueError"
              /\ arch.message = "Could not determine num_layers from checkpoint"

\* indices 0 and 2 with a gap, beside a key whose index is no integer
C5_Witness ==
    /\ Returned
    /\ WrittenLayerIndices = {0, 2}
    /\ arch.num_layers = 2
    /\ \E k \in 1..Len(state_dict) : state_dict[k].key = LayerKey("x")

\* the first Wqkv key has shape [3 * e, e] and e is the inferred embed_dim
WqkvOfWidth(e) ==
    LET W == { k \in 1..Len(state_dict) : Contains(state_dict[k].key, WqkvPat) }
    IN  /\ readable
        /\ W # {}
        /\ state_dict[CHOOSE n \in W : \A m \in W : n <= m].shape = <<3 * e, e>>
        /\ EmbedStage(state_dict) = [status |-> "ok", value |-> e]

\* C6: with a first Wqkv key of shape [3 * embed_dim, embed_dim], num_heads
\* comes from the first rule that applies, in the order: divisible by 64,
\* by 32, by 128, then the first of 8, 12, 16, 20, 24, 32 dividing embed_dim;
\* 768 gives 12 and 100 gives 20.
C6_HeadRuleOrder ==
    pc = "returned" =>
        \A e \in EmbedDims : WqkvOfWidth(e) =>
            LET h == arch.num_heads
                cands == <<8, 12, 16, 20, 24, 32>>
                by64 == e % 64 = 0
                by32 == e % 32 = 0
                by128 == e % 128 = 0
                firstc == { c \in 1..6 : /\ e % cands[c] = 0
                                         /\ \A d \in 1..(c - 1) : e % cands[d] # 0 }
            IN  /\ (by64 \/ by32 \/ by128 \/ firstc # {}) =>
                      arch.raised = "" /\ arch.embed_dim = e
                /\ by64 => h = e \div 64
                /\ (~by64 /\ by32) => h = e \div 32
                /\ (~by64 /\ ~by32 /\ by128) => h = e \div 128
                /\ (~by64 /\ ~by32 /\ ~by128) =>
                      \A c \in firstc : h = cands[c]
                /\ e = 768 => h = 12
                /\ e = 100 => h = 20

\* embed_dim 100 with a Wqkv weight of shape [300, 100]
C6_Witness ==
    /\ Returned
    /\ WqkvOfWidth(100)
    /\ arch.num_heads = 20

\* C9 as stated: every returned embed_dim, num_layers and num_heads is at
\* least 1, for every table and every shape, zero-sized dimensions included.
C9_ReturnedScalarsPositive ==
    Returned =>
        /\ arch.embed_dim >= 1
        /\ arch.num_layers >= 1
        /\ arch.num_heads >= 1

\* C10: a num_heads fixed by the Wqkv stage, for embed_dim >= 1, divides
\* embed_dim.
C10_WqkvHeadsDivideWidth ==
    (/\ Returned
     /\ arch.embed_dim >= 1
     /\ WqkvStage(state_dict, arch.embed_dim).heads # <<>>) =>
        /\ arch.num_heads >= 1
        /\ arch.embed_dim % arch.num_heads = 0

\* embed_dim 36, which only the candidate 12 divides
C10_Witness ==
    /\ Returned
    /\ arch.embed_dim = 36
    /\ WqkvStage(state_dict, arch.embed_dim).heads # <<>>
    /\ arch.num_heads = 12

----------------------------------------------------------------------------
(* Properties of load_and_generate_embeddings.                             *)

LoadedOk == \E k \in 1..Len(log) : log[k] = "Successfully loaded checkpoint"

\* C2 as stated: no failure of reading the checkpoint, of the inference or
\* of the encoder's construction reaches the caller as an exception.
C2_NoFailureReachesCaller == pc # "raised"

\* C3: once the weights are loaded the generator yields one pair per input
\* sequence, the k-th pair carrying the k-th sequence, for every batch size
\* and in both modes.
C3_OnePairPerSequenceInOrder ==
    /\ Len(yielded) <= Len(sequences)
    /\ \A k \in 1..Len(yielded) : yielded[k].seq = sequences[k]
    /\ (pc = "done" /\ LoadedOk) => Len(yielded) = Len(sequences)

\* three sequences in batches of two: the last batch is smaller
C3_Witness ==
    /\ pc = "done"
    /\ LoadedOk
    /\ batch_size = 2
    /\ Len(sequences) = 3
    /\ sequences[1] # sequences[2]
    /\ Len(yielded) = 3

\* no Wqkv key and no layer-0 key naming a query weight, while embed_dim and
\* num_layers can be determined
HeadsUndeterminable ==
    /\ readable
    /\ \A k \in 1..Len(state_dict) :
          /\ ~Contains(state_dict[k].key, WqkvPat)
          /\ ~(/\ Contains(Lower(state_dict[k].key), <<"query">>)
               /\ Contains(Lower(state_dict[k].key), <<"weight">>)
               /\ Contains(state_dict[k].key, <<"layers", "0">>))
    /\ EmbedStage(state_dict).status = "ok"
    /\ LayerIndices(state_dict) # {}

\* C4: when num_heads cannot be determined the inspection fails with the
\* num_heads error and the generator ends with nothing yielded and no input
\* sequence drawn or processed.
C4_NoHeadsNoResults ==
    (HeadsUndeterminable /\ pc # "start") =>
        /\ arch.raised = "ValueError"
        /\ arch.message = "Could not determine num_heads from checkpoint"
        /\ pc = "done"
        /\ yielded = <<>>
        /\ taken = 0
        /\ seq_list = <<>>
        /\ batch = NoBatch

C4_Witness ==
    /\ HeadsUndeterminable
    /\ pc = "done"
    /\ Len(sequences) >= 1
    /\ yielded = <<>>

\* the positions of row r of the current batch that hold residues
ResiduePositions(r) ==
    { t \in 1..Len(batch.ids[r]) : batch.ids[r][t] \notin {"EOS", "PAD"} }

\* C7 as stated: in pooled mode the positions averaged for a row, and counted
\* in its divisor, are exactly the row's residue positions, also for a row
\* shorter than the longest of its batch.
C7_PooledOverResiduesOnly ==
    (per_seq_embeddings /\ pc = "yield") =>
        \A r \in 1..Len(batch.pooled) :
            /\ batch.pooled[r].terms = ResiduePositions(r)
            /\ batch.pooled[r].divisor = Cardinality(ResiduePositions(r))

\* ones covering residues and end-of-sequence marker, then zeros only
PrefixMask(r) ==
    \E n \in 1..Len(batch.mask[r]) :
        /\ batch.ids[r][n] = "EOS"
        /\ \A t \in 1..Len(batch.mask[r]) :
              batch.mask[r][t] = (IF t <= n THEN 1 ELSE 0)

\* C8: in per-token mode a row's matrix has attention_mask.sum() - 1 rows,
\* the hidden states of its first positions, none of them padding or the
\* end-of-sequence marker.
C8_PerTokenRowsAreResidues ==
    (~per_seq_embeddings /\ pc = "yield") =>
        \A r \in 1..j :
            LET rows == yielded[Len(yielded) - j + r].embedding.rows
                n    == SumSeq(batch.mask[r]) - 1
            IN  PrefixMask(r) =>
                  /\ Len(rows) = n
                  /\ rows = [t \in 1..n |-> t]
                  /\ \A t \in 1..Len(rows) : rows[t] \in ResiduePositions(r)

\* a padded row of a per-token batch has been yielded with its residues
C8_Witness ==
    /\ ~per_seq_embeddings
    /\ pc = "yield"
    /\ j = 2
    /\ PrefixMask(2)
    /\ batch.mask[2][Len(batch.mask[2])] = 0
    /\ Len(yielded[Len(yielded)].embedding.rows) >= 1

====
